---- MODULE Spec2Model ----
(***************************************************************************)
(* A model of eth/helpers.go of go-kzg: the EIP-4844 KZG helpers.          *)
(*                                                                         *)
(* The scalar field Fr is modelled by the integers modulo a small prime,   *)
(* the groups G1 and G2 by the discrete logarithms of their points (a      *)
(* point a*G is the scalar a), and the pairing check e(A,B) = e(C,D) by    *)
(* the equation a*b = c*d in Fr.  The trusted setup is the one generated   *)
(* by a secret tau.                                                        *)
(***************************************************************************)
EXTENDS Integers, Sequences, FiniteSets, TLC

VARIABLES pc, kzgSetupStr, kzgSetupG2, kzgSetupLagrange, KzgSetupG1, DomainFr,
          in, res

vars == <<pc, kzgSetupStr, kzgSetupG2, kzgSetupLagrange, KzgSetupG1, DomainFr,
          in, res>>

tables == <<kzgSetupG2, kzgSetupLagrange, KzgSetupG1, DomainFr>>

\* ------------------------------------------------------------------ bounds

MaxVal == 1
MaxBatch == 2
MaxListLen == 16
MaxPowers == 5
MaxByte == 1
MaxHashLen == 2

\* --------------------------------------------------------- program constants

\* The scalar-field modulus (a small prime with 4 | BLSModulus - 1).
BLSModulus == 13
\* The domain size n.
FieldElementsPerBlob == 4

Fr == 0 .. (BLSModulus - 1)

\* ------------------------------------------------------- outcomes of a call

Ok(v) == [st |-> "ok", v |-> v]
Err(e) == [st |-> "err", err |-> e]
Panic == [st |-> "panic"]

\* ------------------------------------------------------------ bls: scalars

AddModFr(a, b) == (a + b) % BLSModulus
SubModFr(a, b) == (a - b + BLSModulus) % BLSModulus
MulModFr(a, b) == (a * b) % BLSModulus
EqualFr(a, b) == a = b

RECURSIVE ExpModFr(_, _)
ExpModFr(a, k) == IF k = 0 THEN 1 % BLSModulus ELSE MulModFr(a, ExpModFr(a, k - 1))

InvModFr(a) == ExpModFr(a, BLSModulus - 2)
DivModFr(a, b) == MulModFr(a, InvModFr(b))

\* Sum of f[i]*g[i] over i in 1..k, in Fr.
RECURSIVE DotFr(_, _, _)
DotFr(f, g, k) == IF k = 0 THEN 0 ELSE AddModFr(DotFr(f, g, k - 1), MulModFr(f[k], g[k]))

Min(a, b) == IF a <= b THEN a ELSE b

\* ------------------------------------------------------------- bls: points

GenG1 == 1 % BLSModulus
GenG2 == 1 % BLSModulus
MulG1(p, s) == MulModFr(p, s)
MulG2(p, s) == MulModFr(p, s)
SubG1(a, b) == SubModFr(a, b)
SubG2(a, b) == SubModFr(a, b)

\* e(a1, a2) = e(b1, b2)
PairingsVerify(a1, a2, b1, b2) == MulModFr(a1, a2) = MulModFr(b1, b2)

\* The multi-scalar multiplication.  Its contract covers equal lengths; with
\* unequal lengths it either aborts or combines the common prefix.
LinCombG1(numbers, factors) ==
    IF Len(numbers) = Len(factors)
    THEN {Ok(DotFr(numbers, factors, Len(numbers)))}
    ELSE {Panic, Ok(DotFr(numbers, factors, Min(Len(numbers), Len(factors))))}

\* The 48-byte compressed form of a G1 point: the compression flag (and the
\* infinity flag for the identity) in the first byte, the point in the last.
ToCompressedG1(p) ==
    [i \in 1 .. 48 |-> IF i = 1 THEN (IF p = 0 THEN 192 ELSE 128)
                       ELSE IF i = 48 THEN p ELSE 0]

FromCompressedG1(b) ==
    IF /\ Len(b) = 48
       /\ b[48] \in Fr
       /\ b[1] = (IF b[48] = 0 THEN 192 ELSE 128)
       /\ \A i \in 2 .. 47 : b[i] = 0
    THEN Ok(b[48])
    ELSE Err("invalid compressed G1 point")

\* ------------------------------------------------ bit-reversal permutation

RECURSIVE Pow2(_)
Pow2(k) == IF k = 0 THEN 1 ELSE 2 * Pow2(k - 1)

\* Bit i of the uint64 n (the model's integers are below 2^31).
Bit(n, i) == IF i >= 31 THEN 0 ELSE (n \div Pow2(i)) % 2

isPowerOfTwo(value) == value > 0 /\ \E k \in 0 .. 30 : value = Pow2(k)

\* math/bits.Len64: the number of bits needed to represent x.
RECURSIVE Len64(_)
Len64(x) == IF x = 0 THEN 0 ELSE 1 + Len64(x \div 2)

\* Bit j of bits.Reverse64(n) >> s: a shift of 64 or more gives 0.
ReversedShiftedBit(n, s, j) == IF j + s > 63 THEN 0 ELSE Bit(n, 63 - (j + s))

RECURSIVE BitsValue(_, _, _)
BitsValue(n, s, j) ==
    IF j > 63 THEN 0
    ELSE (IF ReversedShiftedBit(n, s, j) = 1 THEN Pow2(j) ELSE 0) + BitsValue(n, s, j + 1)

\* reverseBits shifting by one bit too few.
reverseBitsShort(n, order) ==
    IF ~isPowerOfTwo(order) THEN Panic
    ELSE Ok(BitsValue(n, 64 - Len64(order), 0))

reverseBits(n, order) ==
    IF ~isPowerOfTwo(order) THEN Panic
    ELSE Ok(BitsValue(n, 65 - Len64(order), 0))

\* bitReversalPermutation copying without permuting.
bitReversalPermutationCopy(l) == Ok(l)

\* out[i] = l[reverseBits(i, len(l))] over 0-based indices; a panic of
\* reverseBits, or an index outside l, aborts the call.
bitReversalPermutation(l) ==
    LET order == Len(l)
        idx == [i \in 1 .. order |-> reverseBits(i - 1, order)]
    IN  IF \E i \in 1 .. order : idx[i].st = "panic" \/ idx[i].v >= order
        THEN Panic
        ELSE Ok([i \in 1 .. order |-> l[idx[i].v + 1]])

\* --------------------------------------------------------- setup and domain

\* A primitive FieldElementsPerBlob-th root of unity.
RootOfUnity ==
    CHOOSE w \in 1 .. (BLSModulus - 1) :
        /\ ExpModFr(w, FieldElementsPerBlob) = 1
        /\ \A k \in 1 .. (FieldElementsPerBlob - 1) : ExpModFr(w, k) # 1

\* The barycentric evaluation of the polynomial with values poly over the
\* points domain, at x; a domain point gives the stored value.
RECURSIVE BarycentricSum(_, _, _, _)
BarycentricSum(poly, domain, x, k) ==
    IF k = 0 THEN 0
    ELSE AddModFr(BarycentricSum(poly, domain, x, k - 1),
                  DivModFr(MulModFr(poly[k], domain[k]), SubModFr(x, domain[k])))

Barycentric(poly, domain, x) ==
    IF \E i \in 1 .. Len(domain) : domain[i] = x
    THEN poly[CHOOSE i \in 1 .. Len(domain) : domain[i] = x]
    ELSE MulModFr(DivModFr(SubModFr(ExpModFr(x, Len(domain)), 1), Len(domain) % BLSModulus),
                  BarycentricSum(poly, domain, x, Len(domain)))

NaturalDomain == [i \in 1 .. FieldElementsPerBlob |-> ExpModFr(RootOfUnity, i - 1)]

UnitVector(j) == [i \in 1 .. FieldElementsPerBlob |-> IF i = j THEN 1 ELSE 0]

\* The embedded trusted setup generated by the secret tau: the monomial
\* bases of G1 and G2, and the Lagrange basis of G1 in the natural order of
\* the domain.
JSONTrustedSetup(tau) ==
    [SetupG1 |-> [i \in 1 .. FieldElementsPerBlob |-> ExpModFr(tau, i - 1)],
     SetupG2 |-> [i \in 1 .. 2 |-> ExpModFr(tau, i - 1)],
     SetupLagrange |-> [j \in 1 .. FieldElementsPerBlob |->
                           Barycentric(UnitVector(j), NaturalDomain, tau)]]

\* initDomain: the roots of unity, in bit-reversed order.
initDomain ==
    [i \in 1 .. FieldElementsPerBlob |->
        ExpModFr(RootOfUnity, reverseBits(i - 1, FieldElementsPerBlob).v)]

\* ------------------------------------------------------------ the operations

\* bls.EvaluatePolyInEvaluationForm over DomainFr.  A polynomial of another
\* length than the domain has no defined value: the call returns some scalar.
EvaluatePolynomialInEvaluationForm(poly, x) ==
    IF Len(poly) = Len(DomainFr)
    THEN {Barycentric(poly, DomainFr, x)}
    ELSE Fr

PolynomialToKZGCommitment(eval) ==
    {IF g1.st = "ok" THEN Ok(ToCompressedG1(g1.v)) ELSE g1 :
        g1 \in LinCombG1(kzgSetupLagrange, eval)}

VerifyKZGProofFromPoints(polynomialKZG, z, y, kzgProof) ==
    LET zG2 == MulG2(GenG2, z)
        yG1 == MulG1(GenG1, y)
        xMinusZ == SubG2(kzgSetupG2[2], zG2)
        pMinusY == SubG1(polynomialKZG, yG1)
    IN  PairingsVerify(pMinusY, GenG2, kzgProof, xMinusZ)

\* ComputeKZGProof without the test of z against the domain: the division by
\* zero gives zero.
ComputeKZGProofFromUnguarded(polynomial, z, y) ==
    LET n == Len(polynomial)
        polynomialShifted == [i \in 1 .. n |-> SubModFr(polynomial[i], y)]
    IN  IF n # Len(DomainFr) THEN {Err("polynomial has invalid length")}
        ELSE LET denominatorPoly == [i \in 1 .. n |-> SubModFr(DomainFr[i], z)]
                 quotientPolynomial ==
                     [i \in 1 .. n |-> DivModFr(polynomialShifted[i], denominatorPoly[i])]
             IN  {IF rG1.st = "ok" THEN Ok(ToCompressedG1(rG1.v)) ELSE rG1 :
                     rG1 \in LinCombG1(kzgSetupLagrange, quotientPolynomial)}

\* ComputeKZGProof testing z against the domain before the length.
ComputeKZGProofFromLateCheck(polynomial, z, y) ==
    LET n == Len(polynomial)
        polynomialShifted == [i \in 1 .. n |-> SubModFr(polynomial[i], y)]
    IN  IF \E i \in 1 .. Min(n, Len(DomainFr)) : EqualFr(DomainFr[i], z)
        THEN {Err("invalid z challenge")}
        ELSE IF n # Len(DomainFr) THEN {Err("polynomial has invalid length")}
        ELSE LET denominatorPoly == [i \in 1 .. n |-> SubModFr(DomainFr[i], z)]
                 quotientPolynomial ==
                     [i \in 1 .. n |-> DivModFr(polynomialShifted[i], denominatorPoly[i])]
             IN  {IF rG1.st = "ok" THEN Ok(ToCompressedG1(rG1.v)) ELSE rG1 :
                     rG1 \in LinCombG1(kzgSetupLagrange, quotientPolynomial)}

\* ComputeKZGProof once y = EvaluatePolynomialInEvaluationForm(polynomial, z)
\* is known.
ComputeKZGProofFrom(polynomial, z, y) ==
    LET n == Len(polynomial)
        polynomialShifted == [i \in 1 .. n |-> SubModFr(polynomial[i], y)]
    IN  IF n # Len(DomainFr) THEN {Err("polynomial has invalid length")}
        ELSE IF \E i \in 1 .. n : EqualFr(DomainFr[i], z) THEN {Err("invalid z challenge")}
        ELSE LET denominatorPoly == [i \in 1 .. n |-> SubModFr(DomainFr[i], z)]
                 quotientPolynomial ==
                     [i \in 1 .. n |-> DivModFr(polynomialShifted[i], denominatorPoly[i])]
             IN  {IF rG1.st = "ok" THEN Ok(ToCompressedG1(rG1.v)) ELSE rG1 :
                     rG1 \in LinCombG1(kzgSetupLagrange, quotientPolynomial)}

ComputeKZGProof(polynomial, z) ==
    UNION {ComputeKZGProofFrom(polynomial, z, y) :
              y \in EvaluatePolynomialInEvaluationForm(polynomial, z)}

\* ------------------------------------------------------------------ codec

\* b[31-i], b[i] = b[i], b[31-i] for i < 16: the 32 bytes in reverse order.
ReverseBytes32(b) == [i \in 1 .. 32 |-> b[33 - i]]

\* big.Int.SetBytes: the bytes as a big-endian magnitude, kept as its bytes.
RECURSIVE BigModFrom(_, _, _)
BigModFrom(x, m, k) == IF k = 0 THEN 0 ELSE (BigModFrom(x, m, k - 1) * 256 + x[k]) % m

\* new(big.Int).Mod(new(big.Int).SetBytes(b), m)
BigMod(b, m) == BigModFrom(b, m, Len(b))

\* big.Int.Bytes: the big-endian bytes of v without leading zeros.
RECURSIVE BigBytes(_)
BigBytes(v) == IF v = 0 THEN <<>> ELSE Append(BigBytes(v \div 256), v % 256)

\* bls.FrFrom32: the little-endian 32 bytes as a scalar; false, and the zero
\* scalar the caller allocated, when the value is not below the modulus.
FrFrom32(b) ==
    IF \E i \in 4 .. 32 : b[i] # 0 THEN [ok |-> FALSE, v |-> 0]
    ELSE LET v == b[1] + 256 * b[2] + 65536 * b[3]
         IN  IF v < BLSModulus THEN [ok |-> TRUE, v |-> v] ELSE [ok |-> FALSE, v |-> 0]

\* bls.FrTo32: the canonical little-endian 32 bytes of a scalar.
FrTo32(v) ==
    [i \in 1 .. 32 |-> IF i = 1 THEN v % 256
                       ELSE IF i = 2 THEN (v \div 256) % 256
                       ELSE IF i = 3 THEN (v \div 65536) % 256 ELSE 0]

bigToFr(zB) ==
    LET inb == BigBytes(zB)
        b == [i \in 1 .. 32 |-> IF i > 32 - Len(inb) THEN inb[i - (32 - Len(inb))] ELSE 0]
    IN  FrFrom32(ReverseBytes32(b))

\* BytesToBLSField without the reversal of h.
BytesToBLSFieldUnreversed(h) ==
    LET zB == BigMod(h, BLSModulus)
    IN  bigToFr(zB).v

BytesToBLSField(h) ==
    LET b == ReverseBytes32(h)
        zB == BigMod(b, BLSModulus)
    IN  bigToFr(zB).v

\* -------------------------------------------------------------- transcript

\* "FSBLOBVERIFY_V1_"
FIAT_SHAMIR_PROTOCOL_DOMAIN ==
    <<70, 83, 66, 76, 79, 66, 86, 69, 82, 73, 70, 89, 95, 86, 49, 95>>

\* binary.LittleEndian.PutUint64
PutUint64(v) ==
    [i \in 1 .. 8 |-> IF i = 1 THEN v % 256
                      ELSE IF i = 2 THEN (v \div 256) % 256
                      ELSE IF i = 3 THEN (v \div 65536) % 256 ELSE 0]

RECURSIVE ConcatAll(_, _)
ConcatAll(seqs, k) == IF k = 0 THEN <<>> ELSE ConcatAll(seqs, k - 1) \o seqs[k]

PolyBytes(poly) == ConcatAll([i \in 1 .. Len(poly) |-> FrTo32(poly[i])], Len(poly))

\* The transcript without the polynomials' scalars.
TranscriptOfCommitments(polys, comms) ==
    FIAT_SHAMIR_PROTOCOL_DOMAIN
      \o PutUint64(FieldElementsPerBlob)
      \o PutUint64(Len(polys))
      \o ConcatAll(comms, Len(comms))

\* The bytes HashToBLSField writes to the digest, in order.
Transcript(polys, comms) ==
    FIAT_SHAMIR_PROTOCOL_DOMAIN
      \o PutUint64(FieldElementsPerBlob)
      \o PutUint64(Len(polys))
      \o ConcatAll([i \in 1 .. Len(polys) |-> PolyBytes(polys[i])], Len(polys))
      \o ConcatAll(comms, Len(comms))

\* crypto/sha256, as a deterministic function from the bytes written to a
\* 32-byte digest.
RECURSIVE Sha256Mix(_, _, _)
Sha256Mix(bytes, lo, hi) ==
    IF lo > hi THEN 7
    ELSE IF lo = hi THEN ((bytes[lo] + 1) * ((lo * lo + 3 * lo + 1) % 65521)) % 65521
    ELSE LET mid == (lo + hi) \div 2
         IN  (Sha256Mix(bytes, lo, mid) + Sha256Mix(bytes, mid + 1, hi)) % 65521

Sha256(bytes) ==
    LET m == Sha256Mix(bytes, 1, Len(bytes))
    IN  [i \in 1 .. 32 |-> (m + 7 * i * m + i) % 256]

HashToBLSField(polys, comms) == BytesToBLSField(Sha256(Transcript(polys, comms)))

\* --------------------------------------------------------------- aggregation

\* The loop multiplying before it stores: the powers start at r.
RECURSIVE ComputePowersLoopLate(_, _, _)
ComputePowersLoopLate(r, n, i) ==
    IF i = 0 THEN [powers |-> <<>>, currentPower |-> 1 % BLSModulus, r |-> r]
    ELSE LET s == ComputePowersLoopLate(r, n, i - 1)
         IN  [powers |-> Append(s.powers, MulModFr(s.currentPower, s.r)),
              currentPower |-> MulModFr(s.currentPower, s.r),
              r |-> s.r]

\* The loop of ComputePowers: powers[i] = currentPower, then currentPower *= r.
RECURSIVE ComputePowersLoop(_, _, _)
ComputePowersLoop(r, n, i) ==
    IF i = 0 THEN [powers |-> <<>>, currentPower |-> 1 % BLSModulus, r |-> r]
    ELSE LET s == ComputePowersLoop(r, n, i - 1)
         IN  [powers |-> Append(s.powers, s.currentPower),
              currentPower |-> MulModFr(s.currentPower, s.r),
              r |-> s.r]

\* The memory ComputePowers leaves: the powers returned, and r.
ComputePowersRun(r, n) == ComputePowersLoop(r, n, n)

ComputePowers(r, n) == ComputePowersRun(r, n).powers

\* bls.PolyLinComb: the elementwise linear combination of the vectors.
RECURSIVE LinCombAt(_, _, _, _)
LinCombAt(vectors, scalars, i, k) ==
    IF k = 0 THEN 0
    ELSE AddModFr(LinCombAt(vectors, scalars, i, k - 1), MulModFr(scalars[k], vectors[k][i]))

PolyLinComb(vectors, scalars) ==
    IF \/ Len(vectors) # Len(scalars)
       \/ Len(vectors) = 0
       \/ \E k \in 1 .. Len(vectors) : Len(vectors[k]) # Len(vectors[1])
    THEN Err("invalid vector lengths")
    ELSE Ok([i \in 1 .. Len(vectors[1]) |-> LinCombAt(vectors, scalars, i, Len(vectors))])

\* ComputeAggregatedPolyAndCommitment once r = HashToBLSField(blobs,
\* commitments) and powers = ComputePowers(r, len(blobs)) are known.
ComputeAggregatedPolyAndCommitmentFrom(blobs, commitments, r, powers) ==
    IF Len(powers) = 0 THEN {Err("powers can't be 0 length")}
    ELSE LET evaluationChallenge == MulModFr(r, powers[Len(powers)])
             aggregatedPoly == PolyLinComb(blobs, powers)
             l == Len(commitments)
             decoded == [i \in 1 .. l |-> FromCompressedG1(commitments[i])]
         IN  IF aggregatedPoly.st = "err" THEN {aggregatedPoly}
             ELSE IF \E i \in 1 .. l : decoded[i].st = "err"
             THEN {decoded[CHOOSE i \in 1 .. l :
                      /\ decoded[i].st = "err"
                      /\ \A j \in 1 .. (i - 1) : decoded[j].st = "ok"]}
             ELSE LET commitmentsG1 == [i \in 1 .. l |-> decoded[i].v]
                  IN  {IF g.st = "ok"
                       THEN Ok([aggregatedPoly |-> aggregatedPoly.v,
                                aggregatedCommitmentG1 |-> g.v,
                                evaluationChallenge |-> evaluationChallenge])
                       ELSE g : g \in LinCombG1(commitmentsG1, powers)}

ComputeAggregatedPolyAndCommitment(blobs, commitments) ==
    UNION {UNION {ComputeAggregatedPolyAndCommitmentFrom(blobs, commitments, r, powers) :
                     powers \in {ComputePowers(r, Len(blobs))}} :
              r \in {HashToBLSField(blobs, commitments)}}

\* The commitments ComputeAggregateKZGProofFromPolynomials makes of the blobs:
\* one sequence per outcome of the calls, or a panic.
BlobCommitments(blobs) ==
    LET m == Len(blobs)
        S == UNION {PolynomialToKZGCommitment(blobs[i]) : i \in 1 .. m}
    IN  {f \in [1 .. m -> S] : \A i \in 1 .. m : f[i] \in PolynomialToKZGCommitment(blobs[i])}

ComputeAggregateKZGProofFromPolynomials(blobs) ==
    UNION {IF \E i \in 1 .. Len(blobs) : cs[i].st = "panic" THEN {Panic}
           ELSE UNION {IF agg.st = "err" THEN {agg}
                       ELSE IF agg.st = "panic" THEN {Panic}
                       ELSE ComputeKZGProof(agg.v.aggregatedPoly, agg.v.evaluationChallenge) :
                           agg \in ComputeAggregatedPolyAndCommitment(
                                      blobs, [i \in 1 .. Len(blobs) |-> cs[i].v])} :
              cs \in BlobCommitments(blobs)}

VerifyAggregateKZGProofFromPolynomials(blobs, expectedKZGCommitments, kzgAggregatedProof) ==
    UNION {IF agg.st # "ok" THEN {agg}
           ELSE LET kzgProofG1 == FromCompressedG1(kzgAggregatedProof)
                IN  {IF kzgProofG1.st = "err" THEN Err("failed to decode kzgProof")
                     ELSE Ok(VerifyKZGProofFromPoints(agg.v.aggregatedCommitmentG1,
                                                      agg.v.evaluationChallenge, y,
                                                      kzgProofG1.v)) :
                        y \in EvaluatePolynomialInEvaluationForm(
                                  agg.v.aggregatedPoly, agg.v.evaluationChallenge)} :
              agg \in ComputeAggregatedPolyAndCommitment(blobs, expectedKZGCommitments)}

\* ----------------------------------------------------------- the state machine

\* The secrets of the trusted setups tried, one of them a domain point.
Secrets == {2, RootOfUnity}

\* The lengths of the polynomials tried: the domain's, and around it.
PolyLengths ==
    {0, FieldElementsPerBlob - 1, FieldElementsPerBlob, FieldElementsPerBlob + 1}

\* Off by nothing, or by one.
Skews == {0, 1}

\* The polynomials of length L: free values up to the domain size, 1 beyond.
PolysOfLen(L) ==
    {[i \in 1 .. L |-> IF i <= FieldElementsPerBlob THEN base[i] ELSE 1] :
        base \in [1 .. FieldElementsPerBlob -> 0 .. MaxVal]}

InitSingle ==
    /\ pc = "boot"
    /\ \E tau \in Secrets : kzgSetupStr = JSONTrustedSetup(tau)
    /\ kzgSetupG2 = <<>>
    /\ kzgSetupLagrange = <<>>
    /\ KzgSetupG1 = <<>>
    /\ DomainFr = <<>>
    /\ \E L \in PolyLengths : \E p \in PolysOfLen(L) : \E z \in Fr :
          in = [mode |-> "single", poly |-> p, z |-> z]
    /\ res = [op |-> "none"]

\* func init(): runs once, before any other operation.
init ==
    /\ pc = "boot"
    /\ LET parsedSetup == kzgSetupStr
           permuted == bitReversalPermutation(parsedSetup.SetupLagrange)
       IN  /\ permuted.st = "ok"
           /\ kzgSetupG2' = parsedSetup.SetupG2
           /\ kzgSetupLagrange' = permuted.v
           /\ KzgSetupG1' = parsedSetup.SetupG1
           /\ DomainFr' = initDomain
    /\ pc' = "ready"
    /\ UNCHANGED <<kzgSetupStr, in, res>>

CallPolynomialToKZGCommitment ==
    /\ pc = "ready"
    /\ res.op = "none"
    /\ in.mode = "single"
    /\ \E out \in PolynomialToKZGCommitment(in.poly) :
          res' = [op |-> "PolynomialToKZGCommitment", eval |-> in.poly, ret |-> out]
    /\ UNCHANGED <<pc, kzgSetupStr, tables, in>>

CallEvaluatePolynomialInEvaluationForm ==
    /\ pc = "ready"
    /\ res.op = "none"
    /\ in.mode = "single"
    /\ \E y \in EvaluatePolynomialInEvaluationForm(in.poly, in.z) :
          res' = [op |-> "EvaluatePolynomialInEvaluationForm",
                  poly |-> in.poly, x |-> in.z, ret |-> Ok(y)]
    /\ UNCHANGED <<pc, kzgSetupStr, tables, in>>

\* ComputeKZGProof with denominatorPoly aliasing DomainFr.
CallComputeKZGProofInPlace ==
    /\ pc = "ready"
    /\ res.op = "none"
    /\ in.mode = "single"
    /\ \E out \in ComputeKZGProof(in.poly, in.z) :
          res' = [op |-> "ComputeKZGProof", polynomial |-> in.poly, z |-> in.z,
                  ret |-> out]
    /\ DomainFr' = [i \in 1 .. Len(DomainFr) |-> SubModFr(DomainFr[i], in.z)]
    /\ UNCHANGED <<pc, kzgSetupStr, kzgSetupG2, kzgSetupLagrange, KzgSetupG1, in>>

CallComputeKZGProof ==
    /\ pc = "ready"
    /\ res.op = "none"
    /\ in.mode = "single"
    /\ \E out \in ComputeKZGProof(in.poly, in.z) :
          res' = [op |-> "ComputeKZGProof", polynomial |-> in.poly, z |-> in.z,
                  ret |-> out]
    /\ UNCHANGED <<pc, kzgSetupStr, tables, in>>

\* The verifier on the commitment, evaluation and proof of in.poly at in.z,
\* or on an evaluation or a proof that is off by skew.
CallVerifyKZGProofFromPoints ==
    /\ pc = "ready"
    /\ res.op = "none"
    /\ in.mode = "single"
    /\ \E c \in PolynomialToKZGCommitment(in.poly) :
       \E y \in EvaluatePolynomialInEvaluationForm(in.poly, in.z) :
       \E pr \in ComputeKZGProof(in.poly, in.z) :
       \E dy \in Skews : \E dp \in Skews :
          /\ c.st = "ok"
          /\ pr.st = "ok"
          /\ LET cG1 == FromCompressedG1(c.v).v
                 prG1 == AddModFr(FromCompressedG1(pr.v).v, dp)
                 yy == AddModFr(y, dy)
             IN  res' = [op |-> "VerifyKZGProofFromPoints", polynomialKZG |-> cG1,
                         z |-> in.z, y |-> yy, kzgProof |-> prG1,
                         ret |-> Ok(VerifyKZGProofFromPoints(cG1, in.z, yy, prG1))]
    /\ UNCHANGED <<pc, kzgSetupStr, tables, in>>

\* The batches: polynomials of the domain's length.
BatchPoly(a) == [i \in 1 .. FieldElementsPerBlob |-> (a * i + i * i) % BLSModulus]

Batches ==
    UNION {[1 .. m -> {BatchPoly(a) : a \in 0 .. MaxVal}] : m \in 0 .. MaxBatch}

InitBatch ==
    /\ pc = "boot"
    /\ \E tau \in Secrets : kzgSetupStr = JSONTrustedSetup(tau)
    /\ kzgSetupG2 = <<>>
    /\ kzgSetupLagrange = <<>>
    /\ KzgSetupG1 = <<>>
    /\ DomainFr = <<>>
    /\ \E b \in Batches : \E c \in {Len(b) - 1, Len(b), Len(b) + 1} :
          /\ c >= 0
          /\ in = [mode |-> "batch", blobs |-> b, ncomm |-> c]
    /\ res = [op |-> "none"]

\* The commitment of a polynomial of the domain's length.
CommitmentOf(blob) == (CHOOSE o \in PolynomialToKZGCommitment(blob) : o.st = "ok").v

\* c commitments for the blobs: theirs in order, cut short or continued.
CommitmentsFor(blobs, c) ==
    [i \in 1 .. c |-> IF Len(blobs) = 0 THEN ToCompressedG1(GenG1)
                      ELSE CommitmentOf(blobs[((i - 1) % Len(blobs)) + 1])]

CallHashToBLSField ==
    /\ pc = "ready"
    /\ res.op = "none"
    /\ in.mode = "batch"
    /\ LET comms == CommitmentsFor(in.blobs, in.ncomm)
       IN  res' = [op |-> "HashToBLSField", polys |-> in.blobs, comms |-> comms,
                   ret |-> Ok(HashToBLSField(in.blobs, comms))]
    /\ UNCHANGED <<pc, kzgSetupStr, tables, in>>

CallComputeAggregatedPolyAndCommitment ==
    /\ pc = "ready"
    /\ res.op = "none"
    /\ in.mode = "batch"
    /\ LET comms == CommitmentsFor(in.blobs, in.ncomm)
       IN  \E out \in ComputeAggregatedPolyAndCommitment(in.blobs, comms) :
              res' = [op |-> "ComputeAggregatedPolyAndCommitment", blobs |-> in.blobs,
                      commitments |-> comms, ret |-> out]
    /\ UNCHANGED <<pc, kzgSetupStr, tables, in>>

CallComputeAggregateKZGProofFromPolynomials ==
    /\ pc = "ready"
    /\ res.op = "none"
    /\ in.mode = "batch"
    /\ \E out \in ComputeAggregateKZGProofFromPolynomials(in.blobs) :
          res' = [op |-> "ComputeAggregateKZGProofFromPolynomials", blobs |-> in.blobs,
                  ret |-> out]
    /\ UNCHANGED <<pc, kzgSetupStr, tables, in>>

\* The aggregate verifier on the proof ComputeAggregateKZGProofFromPolynomials
\* gives for the blobs (the identity when it gives none), or on one off by skew.
CallVerifyAggregateKZGProofFromPolynomials ==
    /\ pc = "ready"
    /\ res.op = "none"
    /\ in.mode = "batch"
    /\ LET comms == CommitmentsFor(in.blobs, in.ncomm)
       IN  \E pr \in ComputeAggregateKZGProofFromPolynomials(in.blobs)
                        \cup {Ok(ToCompressedG1(0))} :
           \E dp \in Skews :
              /\ pr.st = "ok"
              /\ LET proof == ToCompressedG1(AddModFr(FromCompressedG1(pr.v).v, dp))
                 IN  \E out \in VerifyAggregateKZGProofFromPolynomials(in.blobs, comms, proof) :
                        res' = [op |-> "VerifyAggregateKZGProofFromPolynomials",
                                blobs |-> in.blobs, commitments |-> comms,
                                kzgAggregatedProof |-> proof, ret |-> out]
    /\ UNCHANGED <<pc, kzgSetupStr, tables, in>>

\* The call returns: its values are the caller's, and gone with it.
Return ==
    /\ pc = "ready"
    /\ res.op # "none"
    /\ res' = [op |-> "none"]
    /\ UNCHANGED <<pc, kzgSetupStr, tables, in>>

Init == InitSingle \/ InitBatch

Next ==
    \/ init
    \/ CallPolynomialToKZGCommitment
    \/ CallEvaluatePolynomialInEvaluationForm
    \/ CallComputeKZGProof
    \/ CallVerifyKZGProofFromPoints
    \/ CallHashToBLSField
    \/ CallComputeAggregatedPolyAndCommitment
    \/ CallComputeAggregateKZGProofFromPolynomials
    \/ CallVerifyAggregateKZGProofFromPolynomials
    \/ Return

Spec == Init /\ [][Next]_vars

\* ------------------------------------------- the pure functions on their own

NoSetup ==
    /\ pc = "pure"
    /\ kzgSetupStr = <<>>
    /\ kzgSetupG2 = <<>>
    /\ kzgSetupLagrange = <<>>
    /\ KzgSetupG1 = <<>>
    /\ DomainFr = <<>>
    /\ res = [op |-> "none"]

\* bitReversalPermutation, applied once and then to its own result.
InitBRP ==
    /\ NoSetup
    /\ \E N \in 0 .. MaxListLen : \E a \in 0 .. MaxVal : \E b \in 0 .. MaxVal :
          in = [mode |-> "brp", l |-> [i \in 1 .. N |-> a * i + b]]

CallBitReversalPermutation ==
    /\ in.mode = "brp"
    /\ res.op = "none"
    /\ res' = [op |-> "bitReversalPermutation", l |-> in.l, n |-> 1,
               ret |-> bitReversalPermutation(in.l)]
    /\ UNCHANGED <<pc, kzgSetupStr, tables, in>>

CallBitReversalPermutationAgain ==
    /\ in.mode = "brp"
    /\ res.op = "bitReversalPermutation"
    /\ res.n = 1
    /\ res.ret.st = "ok"
    /\ res' = [op |-> "bitReversalPermutation", l |-> res.ret.v, n |-> 2,
               ret |-> bitReversalPermutation(res.ret.v)]
    /\ UNCHANGED <<pc, kzgSetupStr, tables, in>>

NextBRP == CallBitReversalPermutation \/ CallBitReversalPermutationAgain

SpecBRP == InitBRP /\ [][NextBRP]_vars

InitPowers ==
    /\ NoSetup
    /\ \E r \in Fr : \E n \in 0 .. MaxPowers : in = [mode |-> "powers", r |-> r, n |-> n]

CallComputePowers ==
    /\ in.mode = "powers"
    /\ LET run == ComputePowersRun(in.r, in.n)
       IN  res' = [op |-> "ComputePowers", r |-> in.r, n |-> in.n,
                   ret |-> Ok(ComputePowers(in.r, in.n)), rAfter |-> run.r]
    /\ UNCHANGED <<pc, kzgSetupStr, tables, in>>

NextPowers == CallComputePowers

SpecPowers == InitPowers /\ [][NextPowers]_vars

\* 32-byte inputs: the two bytes at either end free, the rest filled alike.
ByteValues == (0 .. MaxByte) \cup {255}

InitBytes ==
    /\ NoSetup
    /\ \E a \in ByteValues : \E b \in ByteValues : \E c \in ByteValues :
       \E d \in ByteValues : \E fill \in {0, 255} :
          in = [mode |-> "bytes",
                h |-> [i \in 1 .. 32 |-> IF i = 1 THEN a ELSE IF i = 2 THEN b
                                         ELSE IF i = 31 THEN c ELSE IF i = 32 THEN d
                                         ELSE fill]]

CallBytesToBLSField ==
    /\ in.mode = "bytes"
    /\ res' = [op |-> "BytesToBLSField", h |-> in.h, ret |-> Ok(BytesToBLSField(in.h))]
    /\ UNCHANGED <<pc, kzgSetupStr, tables, in>>

NextBytes == CallBytesToBLSField

SpecBytes == InitBytes /\ [][NextBytes]_vars

\* HashToBLSField on a batch, and on the batch with its first and last
\* polynomials, or its first and last commitments, swapped.
HashPolys == UNION {[1 .. L -> 0 .. MaxVal] : L \in 1 .. MaxHashLen}

HashComms == {ToCompressedG1(0), ToCompressedG1(GenG1)}

InitHash ==
    /\ NoSetup
    /\ \E p1 \in HashPolys : \E p2 \in HashPolys : \E mid \in BOOLEAN :
       \E c1 \in HashComms : \E c2 \in HashComms :
          in = [mode |-> "hash",
                polys |-> IF mid THEN <<p1, <<1, 0>>, p2>> ELSE <<p1, p2>>,
                comms |-> <<c1, c2>>]

SwapEnds(s) ==
    [i \in 1 .. Len(s) |-> IF i = 1 THEN s[Len(s)] ELSE IF i = Len(s) THEN s[1] ELSE s[i]]

HashCall(polys, comms) ==
    [polys |-> polys, comms |-> comms, transcript |-> Transcript(polys, comms),
     ret |-> Ok(HashToBLSField(polys, comms))]

CallHashFirst ==
    /\ in.mode = "hash"
    /\ res.op = "none"
    /\ res' = [op |-> "HashToBLSField", swapped |-> "none",
               first |-> HashCall(in.polys, in.comms)]
    /\ UNCHANGED <<pc, kzgSetupStr, tables, in>>

CallHashSwappedPolys ==
    /\ in.mode = "hash"
    /\ res.op = "HashToBLSField"
    /\ res.swapped = "none"
    /\ res' = [op |-> "HashToBLSField", swapped |-> "polys", first |-> res.first,
               second |-> HashCall(SwapEnds(in.polys), in.comms)]
    /\ UNCHANGED <<pc, kzgSetupStr, tables, in>>

CallHashSwappedComms ==
    /\ in.mode = "hash"
    /\ res.op = "HashToBLSField"
    /\ res.swapped = "none"
    /\ res' = [op |-> "HashToBLSField", swapped |-> "comms", first |-> res.first,
               second |-> HashCall(in.polys, SwapEnds(in.comms))]
    /\ UNCHANGED <<pc, kzgSetupStr, tables, in>>

NextHash == CallHashFirst \/ CallHashSwappedPolys \/ CallHashSwappedComms

SpecHash == InitHash /\ [][NextHash]_vars

\* --------------------------------------------------------------- the claims

InDomain(z) == \E i \in 1 .. Len(DomainFr) : DomainFr[i] = z

\* The arguments of the verifier's call are the commitment, evaluation and
\* proof of poly at z.
HonestVerifyArgs(poly, z) ==
    /\ res.polynomialKZG = FromCompressedG1(CommitmentOf(poly)).v
    /\ res.z = z
    /\ res.y \in EvaluatePolynomialInEvaluationForm(poly, z)
    /\ \E pr \in ComputeKZGProof(poly, z) :
          pr.st = "ok" /\ res.kzgProof = FromCompressedG1(pr.v).v

\* C1: for a polynomial of the domain's length and a z outside the domain,
\* ComputeKZGProof returns a proof and no error, and the verifier accepts the
\* commitment, the evaluation and that proof.
C1_RoundTrip ==
    (pc = "ready" /\ in.mode = "single" /\ Len(in.poly) = FieldElementsPerBlob
        /\ ~InDomain(in.z)) =>
       /\ res.op = "ComputeKZGProof" => res.ret.st = "ok"
       /\ (res.op = "VerifyKZGProofFromPoints" /\ HonestVerifyArgs(in.poly, in.z)) =>
             res.ret = Ok(TRUE)

C1_Witness ==
    /\ pc = "ready" /\ in.mode = "single" /\ Len(in.poly) = FieldElementsPerBlob
    /\ ~InDomain(in.z)
    /\ in.poly[1] # in.poly[2]
    /\ res.op = "VerifyKZGProofFromPoints"
    /\ HonestVerifyArgs(in.poly, in.z)
    /\ res.ret = Ok(TRUE)

C3_ShapeValidated ==
    (/\ res.op \in {"ComputeAggregatedPolyAndCommitment",
                    "VerifyAggregateKZGProofFromPolynomials"}
     /\ Len(res.commitments) # Len(res.blobs)) =>
       res.ret.st = "err"

\* The challenge of the batch of the one polynomial P.
ChallengeOfOne(P) == HashToBLSField(<<P>>, <<CommitmentOf(P)>>)

\* C4: for a batch of one polynomial P whose challenge r is outside the
\* domain, ComputeAggregateKZGProofFromPolynomials returns the proof of
\* ComputeKZGProof(P, r), and VerifyAggregateKZGProofFromPolynomials accepts
\* it for the commitment of P, as VerifyKZGProofFromPoints does at r.
C4_BatchOfOne ==
    (pc = "ready" /\ in.mode = "batch" /\ Len(in.blobs) = 1
        /\ ~InDomain(ChallengeOfOne(in.blobs[1]))) =>
       LET P == in.blobs[1]
           r == ChallengeOfOne(P)
       IN  /\ res.op = "ComputeAggregateKZGProofFromPolynomials" =>
                 res.ret.st = "ok" /\ res.ret \in ComputeKZGProof(P, r)
           /\ (/\ res.op = "VerifyAggregateKZGProofFromPolynomials"
               /\ res.commitments = <<CommitmentOf(P)>>
               /\ Ok(res.kzgAggregatedProof) \in ComputeKZGProof(P, r)) =>
                 /\ res.ret = Ok(TRUE)
                 /\ \A y \in EvaluatePolynomialInEvaluationForm(P, r) :
                       res.ret.v = VerifyKZGProofFromPoints(
                                       FromCompressedG1(CommitmentOf(P)).v, r, y,
                                       FromCompressedG1(res.kzgAggregatedProof).v)

C4_Witness ==
    /\ pc = "ready" /\ in.mode = "batch" /\ Len(in.blobs) = 1
    /\ ~InDomain(ChallengeOfOne(in.blobs[1]))
    /\ res.op = "VerifyAggregateKZGProofFromPolynomials"
    /\ res.commitments = <<CommitmentOf(in.blobs[1])>>
    /\ Ok(res.kzgAggregatedProof) \in ComputeKZGProof(in.blobs[1], ChallengeOfOne(in.blobs[1]))
    /\ res.ret = Ok(TRUE)

RECURSIVE Log2(_)
Log2(N) == IF N <= 1 THEN 0 ELSE 1 + Log2(N \div 2)

\* The k-bit number i with its bits in reverse order.
RECURSIVE ReverseOf(_, _)
ReverseOf(i, k) == IF k = 0 THEN 0 ELSE (i % 2) * Pow2(k - 1) + ReverseOf(i \div 2, k - 1)

\* C6: for a list l of a power-of-two length N, bitReversalPermutation returns
\* a list of length N with out[i] = l[reverse(i)], reverse(i) within [0, N),
\* and applied to its own result it returns l.
C6_BitReversal ==
    (res.op = "bitReversalPermutation" /\ isPowerOfTwo(Len(in.l))) =>
       /\ res.ret.st = "ok"
       /\ Len(res.ret.v) = Len(in.l)
       /\ \A i \in 0 .. (Len(in.l) - 1) :
             /\ ReverseOf(i, Log2(Len(in.l))) \in 0 .. (Len(in.l) - 1)
             /\ res.n = 1 => res.ret.v[i + 1] = in.l[ReverseOf(i, Log2(Len(in.l))) + 1]
       /\ res.n = 2 => res.ret.v = in.l

C6_Witness ==
    /\ res.op = "bitReversalPermutation"
    /\ Len(in.l) = 4
    /\ res.n = 2
    /\ res.l # in.l
    /\ res.ret = Ok(in.l)

\* r to the i, with r^0 = 1 for every r.
Power(r, i) == IF i = 0 THEN 1 ELSE r ^ i

\* C7: ComputePowers(r, n) returns n scalars, the first the one and the i-th
\* r^i, and leaves r as it was.
C7_Powers ==
    res.op = "ComputePowers" =>
       /\ res.ret.st = "ok"
       /\ Len(res.ret.v) = res.n
       /\ res.n > 0 => res.ret.v[1] = 1
       /\ \A i \in 0 .. (res.n - 1) : res.ret.v[i + 1] = Power(res.r, i) % BLSModulus
       /\ res.rAfter = res.r

C7_Witness ==
    /\ res.op = "ComputePowers"
    /\ res.n >= 3
    /\ res.r > 1
    /\ res.ret.v[3] = (res.r * res.r) % BLSModulus

\* 256^k in Fr.
RECURSIVE Pow256Mod(_)
Pow256Mod(k) == IF k = 0 THEN 1 % BLSModulus ELSE (256 * Pow256Mod(k - 1)) % BLSModulus

\* The sum of h[i] * 256^e(i) over i in 1..k, in Fr.
RECURSIVE WeightedSum(_, _, _)
WeightedSum(h, bigEndian, k) ==
    IF k = 0 THEN 0
    ELSE (WeightedSum(h, bigEndian, k - 1)
            + h[k] * Pow256Mod(IF bigEndian THEN 32 - k ELSE k - 1)) % BLSModulus

\* C8 as stated: BytesToBLSField(h) is h read as a big-endian integer, modulo
\* the modulus.
C8_BigEndian ==
    res.op = "BytesToBLSField" =>
       res.ret.st = "ok" /\ res.ret.v \in Fr /\ res.ret.v = WeightedSum(res.h, TRUE, 32)

\* C8 amended: BytesToBLSField(h) never fails and is h read as a
\* little-endian integer, modulo the modulus.
C8_LittleEndian ==
    res.op = "BytesToBLSField" =>
       res.ret.st = "ok" /\ res.ret.v \in Fr /\ res.ret.v = WeightedSum(res.h, FALSE, 32)

C8_Witness ==
    /\ res.op = "BytesToBLSField"
    /\ res.h[1] = 1 /\ res.h[32] = 0 /\ res.h[16] = 255
    /\ res.ret.v = WeightedSum(res.h, FALSE, 32)
    /\ res.ret.v # WeightedSum(res.h, TRUE, 32)

\* C9: no operation runs before init; init assigns the four tables; and from
\* then on every call leaves the tables, the embedded setup and its inputs
\* as they are.
C9_SetupStep ==
    /\ pc = "boot" => res = [op |-> "none"] /\ Len(DomainFr) = 0
    /\ (pc = "boot" /\ pc' = "ready") =>
          /\ Len(kzgSetupG2') = 2
          /\ Len(kzgSetupLagrange') = FieldElementsPerBlob
          /\ Len(KzgSetupG1') = FieldElementsPerBlob
          /\ Len(DomainFr') = FieldElementsPerBlob
    /\ pc = "ready" => /\ pc' = "ready"
                       /\ tables' = tables
                       /\ kzgSetupStr' = kzgSetupStr
                       /\ in' = in

====
